---- MODULE Spec2Model ----
(***************************************************************************)
(* FutureHook (src/lib.rs): a stale-while-revalidate cell made of a        *)
(* UseFuture<Result<T, E>> handle and a UseState<bool> outdated marker.    *)
(*                                                                         *)
(* The future handle is the external engine.  It is modelled by what the   *)
(* hook consumes from it: the last completed result (value()), the raw     *)
(* execution state (state()) and restart(), plus the engine's own step,    *)
(* the completion of an execution it has in flight.                        *)
(***************************************************************************)
EXTENDS Integers, Sequences, FiniteSets, TLC

\* Payloads T are 1..MaxPayload, errors E are 1..MaxError.
MaxPayload == 2
MaxError == 2

Payloads == 1..MaxPayload
Errors == 1..MaxError

\* Result<T, E>
Ok(v) == <<"Ok", v>>
Err(e) == <<"Err", e>>
Results == {Ok(v) : v \in Payloads} \cup {Err(e) : e \in Errors}

\* Option<X>
None == <<"None">>
Some(x) == <<"Some", x>>

\* A failed unwrap()
Panic == <<"Panic">>

StartupGuard == {"Disable", "Enable"}

VARIABLES
  startup_guard,    \* the startup policy the hook was built with
  outdated_marker,  \* UseState<bool>
  value,            \* future.value(): Option<Result<T, E>>, last completed result
  running,          \* executions of the producer the engine has in flight
  op,               \* the last operation or engine event
  arg,              \* its argument (allow_cache_while_reloading), FALSE if none
  ret,              \* what it returned, None if nothing
  pre,              \* the hook as it was before it
  \* History of the calls and engine events, kept for the properties below.
  completed,        \* the result of the engine's last completion, None before the first
  clean,            \* a restart has taken effect and set_outdated was not called since
  invalidation,     \* "pending": set_outdated came while an execution was in flight;
                    \* "refreshing": a restart took effect after it; "none" otherwise
  inflight_tainted, \* set_outdated was called since the execution in flight started
  value_tainted,    \* set_outdated was called since the execution that produced the
                    \* held result started
  refresh           \* "started": a restart took effect in Outdated; "done": the
                    \* execution it started has completed; "none" otherwise

vars == <<startup_guard, outdated_marker, value, running, op, arg, ret, pre,
          completed, clean, invalidation, inflight_tainted, value_tainted, refresh>>

\* The hook: the outdated marker and the engine cell behind the future handle.
Hook(o, v, r) == [outdated_marker |-> o, value |-> v, running |-> r]

Cur == Hook(outdated_marker, value, running)

\* UseFuture::state(), as matched in check_state: Pending until a first result
\* is held, Reloading while a result is held and an execution is in flight,
\* Complete(result) otherwise.
state(h) ==
  IF h.value = None THEN <<"Pending">>
  ELSE IF h.running > 0 THEN <<"Reloading", h.value[2]>>
  ELSE <<"Complete", h.value[2]>>

\* UseFuture::restart(): the engine begins a new execution; the held result stays.
future_restart(h) == [h EXCEPT !.running = @ + 1]

is_outdated(h) == h.outdated_marker

\* check_state with the override applied to every provisional state.
check_state_override_all(h) ==
  IF is_outdated(h) THEN "Outdated"
  ELSE LET s == state(h)
       IN CASE s[1] = "Pending" -> "Empty"
            [] s[1] = "Complete" /\ s[2][1] = "Ok" -> "Ready"
            [] s[1] = "Complete" /\ s[2][1] = "Err" -> "Error"
            [] s[1] = "Reloading" -> "Reloading"

check_state(h) ==
  LET s == state(h)
      val == CASE s[1] = "Pending" -> "Empty"
               [] s[1] = "Complete" /\ s[2][1] = "Ok" -> "Ready"
               [] s[1] = "Complete" /\ s[2][1] = "Err" -> "Error"
               [] s[1] = "Reloading" -> "Reloading"
  IN IF (val = "Ready" \/ val = "Error") /\ is_outdated(h) THEN "Outdated" ELSE val

\* Option::unwrap() followed by Result::unwrap(), on future.value()
unwrap_value(h) ==
  IF h.value = None THEN Panic
  ELSE IF h.value[2][1] = "Ok" THEN Some(h.value[2][2]) ELSE Panic

\* read whose strict branch also serves the held payload while reloading.
read_strict_serves_reloading(h, allow_cache_while_reloading) ==
  IF is_outdated(h) THEN None
  ELSE IF check_state(h) \in {"Ready", "Reloading"} /\ h.value[2][1] = "Ok"
       THEN Some(h.value[2][2])
       ELSE None

\* read whose permissive branch hands out the held result without matching on Err.
read_no_err_match(h, allow_cache_while_reloading) ==
  IF is_outdated(h) THEN None
  ELSE IF ~allow_cache_while_reloading THEN
    (IF check_state(h) = "Ready" THEN unwrap_value(h) ELSE None)
  ELSE IF check_state(h) \in {"Ready", "Reloading", "Error"} THEN Some(h.value[2][2])
  ELSE None

\* read whose permissive branch unwraps the held result in Empty as well.
read_unwrap_in_empty(h, allow_cache_while_reloading) ==
  IF is_outdated(h) THEN None
  ELSE IF ~allow_cache_while_reloading THEN
    (IF check_state(h) = "Ready" THEN unwrap_value(h) ELSE None)
  ELSE IF check_state(h) = "Error" THEN None
  ELSE IF h.value = None THEN Panic
  ELSE IF h.value[2][1] = "Err" THEN None
  ELSE Some(h.value[2][2])

\* read without the early return on the marker.
read_no_marker_check(h, allow_cache_while_reloading) ==
  IF ~allow_cache_while_reloading THEN
    (IF check_state(h) = "Ready" THEN unwrap_value(h) ELSE None)
  ELSE
    CASE check_state(h) \in {"Empty", "Error"} -> None
      [] check_state(h) \in {"Ready", "Reloading"} ->
           (IF h.value = None THEN Panic
            ELSE IF h.value[2][1] = "Err" THEN None
            ELSE Some(h.value[2][2]))
      [] check_state(h) = "Outdated" ->
           (LET s == state(h)
            IN IF s[1] = "Complete" /\ s[2][1] = "Ok" THEN Some(s[2][2]) ELSE None)

\* read whose permissive branch serves the held payload only while reloading.
read_permissive_reloading_only(h, allow_cache_while_reloading) ==
  IF is_outdated(h) THEN None
  ELSE IF ~allow_cache_while_reloading THEN
    (IF check_state(h) = "Ready" THEN unwrap_value(h) ELSE None)
  ELSE IF check_state(h) = "Reloading" /\ h.value[2][1] = "Ok" THEN Some(h.value[2][2])
  ELSE None

read(h, allow_cache_while_reloading) ==
  IF is_outdated(h) THEN None
  ELSE IF ~allow_cache_while_reloading THEN
    (IF check_state(h) = "Ready" THEN unwrap_value(h) ELSE None)
  ELSE
    CASE check_state(h) \in {"Empty", "Error"} -> None
      [] check_state(h) \in {"Ready", "Reloading"} ->
           (IF h.value = None THEN Panic
            ELSE IF h.value[2][1] = "Err" THEN None
            ELSE Some(h.value[2][2]))
      [] check_state(h) = "Outdated" ->
           (LET s == state(h)
            IN IF s[1] = "Complete" /\ s[2][1] = "Ok" THEN Some(s[2][2]) ELSE None)

read_clone(h, allow_cache_while_reloading) == read(h, allow_cache_while_reloading)

\* read_unchecked that applies the staleness marker.
read_unchecked_hides_outdated(h) == IF is_outdated(h) THEN None ELSE h.value

read_unchecked(h) == h.value

\* restart without the early return.
restart_unguarded(h) == future_restart([h EXCEPT !.outdated_marker = FALSE])

\* restart that leaves the marker alone.
restart_keep_marker(h) ==
  IF check_state(h) = "Empty" \/ check_state(h) = "Reloading" THEN h
  ELSE future_restart(h)

\* restart that clears the marker before the early return.
restart_clear_first(h) ==
  IF check_state(h) = "Empty" \/ check_state(h) = "Reloading"
  THEN [h EXCEPT !.outdated_marker = FALSE]
  ELSE future_restart([h EXCEPT !.outdated_marker = FALSE])

\* restart that sets the marker instead of clearing it.
restart_sets_marker(h) ==
  IF check_state(h) = "Empty" \/ check_state(h) = "Reloading" THEN h
  ELSE future_restart([h EXCEPT !.outdated_marker = TRUE])

\* restart whose early return covers Reloading only.
restart_guard_reloading_only(h) ==
  IF check_state(h) = "Reloading" THEN h
  ELSE future_restart([h EXCEPT !.outdated_marker = FALSE])

restart(h) ==
  IF check_state(h) = "Empty" \/ check_state(h) = "Reloading" THEN h
  ELSE future_restart([h EXCEPT !.outdated_marker = FALSE])

\* fetch that restarts whatever the marker says.
fetch_always(h) == restart(h)

\* fetch that asks the engine directly, past restart's early return.
fetch_unguarded(h) ==
  IF is_outdated(h) THEN future_restart([h EXCEPT !.outdated_marker = FALSE]) ELSE h

\* fetch that clears the marker even when restart returned early.
fetch_clears_marker(h) ==
  IF is_outdated(h) THEN [restart(h) EXCEPT !.outdated_marker = FALSE] ELSE h

fetch(h) == IF is_outdated(h) THEN restart(h) ELSE h

\* set_outdated that flips the marker.
set_outdated_toggle(h) == [h EXCEPT !.outdated_marker = ~@]

\* set_outdated that is dropped while an execution is in flight.
set_outdated_when_idle(h) ==
  IF h.running > 0 THEN h ELSE [h EXCEPT !.outdated_marker = TRUE]

set_outdated(h) == [h EXCEPT !.outdated_marker = TRUE]

\* FutureHook::new: the marker starts set iff the guard is Enable; use_future
\* registers the producer, whose first execution is in flight, nothing held.
new(guard) == Hook(guard = "Enable", None, 1)

----------------------------------------------------------------------------

Init ==
  /\ startup_guard \in StartupGuard
  /\ outdated_marker = new(startup_guard).outdated_marker
  /\ value = new(startup_guard).value
  /\ running = new(startup_guard).running
  /\ op = "new"
  /\ arg = FALSE
  /\ ret = None
  /\ pre = new(startup_guard)
  /\ completed = None
  /\ clean = FALSE
  /\ invalidation = "none"
  /\ inflight_tainted = FALSE
  /\ value_tainted = FALSE
  /\ refresh = "none"

\* A restart or fetch call that is due to take effect on hook h: issued while
\* check_state is neither Empty nor Reloading and, for fetch, with the marker set.
Effective(name, h) ==
  /\ name \in {"restart", "fetch"}
  /\ (name = "fetch" => h.outdated_marker)
  /\ check_state(h) \notin {"Empty", "Reloading"}

\* The history kept across the step `name` that maps the hook to n.
Track(name, n) ==
  /\ completed' = IF name = "complete" THEN n.value ELSE completed
  /\ clean' = IF Effective(name, Cur) THEN TRUE
              ELSE IF name = "set_outdated" THEN FALSE ELSE clean
  /\ invalidation' =
       IF name = "set_outdated" /\ running > 0 THEN "pending"
       ELSE IF Effective(name, Cur) /\ invalidation = "pending" THEN "refreshing"
       ELSE IF name = "complete" /\ invalidation = "refreshing" /\ n.value[2][1] = "Ok"
            THEN "none"
       ELSE invalidation
  /\ inflight_tainted' =
       IF n.running > running THEN FALSE
       ELSE IF name = "set_outdated" /\ running > 0 THEN TRUE
       ELSE inflight_tainted
  /\ value_tainted' =
       IF name = "complete" THEN inflight_tainted
       ELSE IF name = "set_outdated" /\ value # None THEN TRUE
       ELSE value_tainted
  /\ refresh' =
       IF Effective(name, Cur) THEN (IF check_state(Cur) = "Outdated" THEN "started" ELSE "none")
       ELSE IF name = "set_outdated" THEN "none"
       ELSE IF name = "complete" /\ refresh = "started" THEN "done"
       ELSE refresh

\* An operation that maps the hook to n and returns r.
Step(name, a, n, r) ==
  /\ op' = name
  /\ arg' = a
  /\ ret' = r
  /\ pre' = Cur
  /\ outdated_marker' = n.outdated_marker
  /\ value' = n.value
  /\ running' = n.running
  /\ Track(name, n)
  /\ UNCHANGED startup_guard

CallCheckState == Step("check_state", FALSE, Cur, check_state(Cur))

CallRead == \E allow \in BOOLEAN : Step("read", allow, Cur, read(Cur, allow))

CallReadClone == \E allow \in BOOLEAN : Step("read_clone", allow, Cur, read_clone(Cur, allow))

CallReadUnchecked == Step("read_unchecked", FALSE, Cur, read_unchecked(Cur))

CallIsOutdated == Step("is_outdated", FALSE, Cur, is_outdated(Cur))

CallRestart == Step("restart", FALSE, restart(Cur), None)

CallFetch == Step("fetch", FALSE, fetch(Cur), None)

CallSetOutdated == Step("set_outdated", FALSE, set_outdated(Cur), None)

\* The engine: an execution in flight resolves to r, which replaces the held result.
Complete ==
  /\ running > 0
  /\ \E r \in Results :
       Step("complete", FALSE, [Cur EXCEPT !.value = Some(r), !.running = @ - 1], None)

Next ==
  \/ CallCheckState
  \/ CallRead
  \/ CallReadClone
  \/ CallReadUnchecked
  \/ CallIsOutdated
  \/ CallRestart
  \/ CallFetch
  \/ CallSetOutdated
  \/ Complete

Spec == Init /\ [][Next]_vars

\* The engine completes every execution it has in flight.
FairSpec == Spec /\ WF_vars(Complete)

TypeOK ==
  /\ startup_guard \in StartupGuard
  /\ outdated_marker \in BOOLEAN
  /\ value \in {None} \cup {Some(r) : r \in Results}
  /\ running \in 0..1
  /\ arg \in BOOLEAN

----------------------------------------------------------------------------
\* The raw execution state and the held result, read off the engine cell.
Raw(h) == state(h)[1]
HeldOk(h) == h.value # None /\ h.value[2][1] = "Ok"
HeldErr(h) == h.value # None /\ h.value[2][1] = "Err"
Payload(h) == h.value[2][2]

\* C1: check_state returns Empty for Pending, Ready for Complete(Ok), Error for
\* Complete(Err) and Reloading for Reloading, except that Ready and Error become
\* Outdated when the marker is set; Empty and Reloading are never reported as
\* Outdated, even with the marker set.
C1_CheckStateTable ==
  op = "check_state" =>
    /\ (Raw(Cur) = "Pending" => ret = "Empty")
    /\ (Raw(Cur) = "Reloading" => ret = "Reloading")
    /\ (Raw(Cur) = "Complete" /\ HeldOk(Cur) =>
          ret = IF outdated_marker THEN "Outdated" ELSE "Ready")
    /\ (Raw(Cur) = "Complete" /\ HeldErr(Cur) =>
          ret = IF outdated_marker THEN "Outdated" ELSE "Error")

C1_Witness ==
  /\ op = "check_state"
  /\ outdated_marker
  /\ Raw(Cur) = "Reloading"
  /\ ret = "Reloading"

\* C2: read(false) returns a value iff check_state is Ready (raw Complete(Ok),
\* marker clear), the value is the held Ok payload, and nothing is returned
\* whenever the marker is set.
C2_StrictReadIffReady ==
  op = "read" /\ arg = FALSE =>
    /\ (ret # None) <=> (check_state(Cur) = "Ready")
    /\ (ret # None) <=> (Raw(Cur) = "Complete" /\ HeldOk(Cur) /\ ~outdated_marker)
    /\ (ret # None => ret = Some(Payload(Cur)))
    /\ (outdated_marker => ret = None)

C2_Witness ==
  /\ op = "read" /\ arg = FALSE
  /\ check_state(Cur) = "Ready"
  /\ ret = Some(Payload(Cur))

\* C3 (as claimed): in logical state Outdated with raw state Complete(Ok(v)),
\* read(true) returns v.
C3_PermissiveReadBypassesOutdated ==
  op = "read" /\ arg = TRUE /\ check_state(Cur) = "Outdated" /\ HeldOk(Cur) =>
    ret = Some(Payload(Cur))

\* C4 (as claimed): in logical state Ready or Reloading with Ok(v) held,
\* read(true) returns v, whatever the marker.
C4_PermissiveReadServesHeldOk ==
  op = "read" /\ arg = TRUE /\ check_state(Cur) \in {"Ready", "Reloading"} /\ HeldOk(Cur) =>
    ret = Some(Payload(Cur))

\* C5: read(true) returns nothing whenever no completed Ok payload is held:
\* in Empty, in Error, and in Reloading or Outdated backed by an Err.
C5_PermissiveReadNothingWithoutOk ==
  op = "read" /\ arg = TRUE /\ ~HeldOk(Cur) => ret = None

C5_Witness ==
  /\ op = "read" /\ arg = TRUE
  /\ ~outdated_marker
  /\ check_state(Cur) = "Reloading"
  /\ HeldErr(Cur)
  /\ ret = None

\* C6: restart() called in Empty or Reloading changes nothing: marker, raw
\* state and held result stay, and no execution is requested from the engine.
C6_RestartNoOp ==
  op = "restart" /\ check_state(pre) \in {"Empty", "Reloading"} =>
    /\ outdated_marker = pre.outdated_marker
    /\ value = pre.value
    /\ running = pre.running
    /\ state(Cur) = state(pre)

C6_Witness ==
  /\ op = "restart"
  /\ check_state(pre) = "Reloading"
  /\ pre.outdated_marker
  /\ outdated_marker
  /\ running = 1

\* C7: restart() called in Ready, Error or Outdated clears the marker and
\* requests one new execution, so that the raw state is Reloading with the
\* previous result still held and check_state is Reloading.
C7_RestartTakesEffect ==
  op = "restart" /\ check_state(pre) \in {"Ready", "Error", "Outdated"} =>
    /\ ~outdated_marker
    /\ running = pre.running + 1
    /\ value = pre.value
    /\ state(Cur) = <<"Reloading", pre.value[2]>>
    /\ check_state(Cur) = "Reloading"

C7_Witness ==
  /\ op = "restart"
  /\ check_state(pre) = "Outdated"
  /\ check_state(Cur) = "Reloading"
  /\ ~outdated_marker

\* C8: fetch() has exactly the effect of restart() when is_outdated() holds at
\* the call, and changes nothing (marker, raw state, held result) otherwise.
C8_FetchIsGuardedRestart ==
  op = "fetch" =>
    IF pre.outdated_marker THEN Cur = restart(pre) ELSE Cur = pre

C8_Witness ==
  /\ op = "fetch"
  /\ check_state(pre) = "Outdated"
  /\ Cur = restart(pre)
  /\ Cur # pre

\* C9: the marker starts true iff the startup policy is Enable, and a set
\* marker is cleared only by a restart or fetch issued while check_state is
\* neither Empty nor Reloading.
C9_MarkerClearedOnlyByEffectiveRestart ==
  /\ (op = "new" => outdated_marker = (startup_guard = "Enable"))
  /\ (pre.outdated_marker /\ ~outdated_marker =>
        /\ op \in {"restart", "fetch"}
        /\ check_state(pre) \notin {"Empty", "Reloading"})

C9_Witness ==
  /\ startup_guard = "Enable"
  /\ op = "fetch"
  /\ check_state(pre) = "Empty"
  /\ pre.outdated_marker
  /\ outdated_marker

\* C10: set_outdated() always leaves the marker set and does not touch the
\* engine (held result, executions in flight, raw state); so from Ready or
\* Error check_state becomes Outdated, and from Empty or Reloading it stays.
C10_SetOutdatedFrame ==
  op = "set_outdated" =>
    /\ outdated_marker
    /\ value = pre.value
    /\ running = pre.running
    /\ state(Cur) = state(pre)
    /\ (check_state(pre) \in {"Ready", "Error"} => check_state(Cur) = "Outdated")
    /\ (check_state(pre) \in {"Empty", "Reloading"} => check_state(Cur) = check_state(pre))

C10_Witness ==
  /\ op = "set_outdated"
  /\ check_state(pre) = "Ready"
  /\ check_state(Cur) = "Outdated"

\* C11: after a restart that took effect, and until set_outdated is called
\* again, the marker is clear and no check_state query returns Outdated, also
\* before the new execution completes.
C11_NoOutdatedAfterRestart ==
  clean =>
    /\ ~outdated_marker
    /\ check_state(Cur) # "Outdated"
    /\ (op = "check_state" => ret # "Outdated")

C11_Witness ==
  /\ clean
  /\ op = "check_state"
  /\ running = 1
  /\ ret = "Reloading"

\* C12: at most one execution of the producer is in flight; a restart or
\* fetch issued while one is in flight starts no other.
C12_AtMostOneInFlight ==
  /\ running <= 1
  /\ (op \in {"restart", "fetch"} /\ pre.running > 0 => running = pre.running)

C12_Witness ==
  /\ op = "fetch"
  /\ pre.outdated_marker
  /\ pre.running = 1
  /\ check_state(pre) = "Reloading"
  /\ running = 1

\* C13 (as claimed): whenever the raw state is Reloading, the held result is Ok.
C13_ReloadingHoldsOk ==
  Raw(Cur) = "Reloading" => HeldOk(Cur)

\* C13 (amended): whenever the raw state is Reloading a completed result, Ok
\* or Err, is held; Reloading is entered only by a restart or fetch issued on
\* a completed result, which stays held as it was.
C13_ReloadingHoldsPriorResult ==
  /\ (Raw(Cur) = "Reloading" => HeldOk(Cur) \/ HeldErr(Cur))
  /\ (Raw(Cur) = "Reloading" /\ Raw(pre) # "Reloading" =>
        /\ op \in {"restart", "fetch"}
        /\ Raw(pre) = "Complete"
        /\ value = pre.value)

C13_Witness ==
  /\ op = "restart"
  /\ check_state(pre) = "Error"
  /\ Raw(Cur) = "Reloading"
  /\ HeldErr(Cur)

\* C14: no operation fails: read and read_clone never hit a failed unwrap, the
\* unwraps being reached only with a completed result held (an Ok one in the
\* strict Ready branch).
C14_ReadNeverPanics ==
  /\ (op \in {"read", "read_clone"} => ret # Panic)
  /\ read(Cur, FALSE) # Panic
  /\ read(Cur, TRUE) # Panic
  /\ (check_state(Cur) = "Ready" => HeldOk(Cur))
  /\ (check_state(Cur) \in {"Ready", "Reloading"} => value # None)

C14_Witness ==
  /\ op = "read_clone" /\ arg = TRUE
  /\ ~outdated_marker
  /\ check_state(Cur) = "Reloading"
  /\ HeldErr(Cur)
  /\ ret = None

\* C15: read_unchecked returns the result the engine holds, nothing before the
\* first completion and the last completed Ok or Err afterwards, whatever the
\* marker and the logical state, and changes nothing.
C15_ReadUncheckedIsHeldResult ==
  op = "read_unchecked" =>
    /\ ret = completed
    /\ ret = value
    /\ Cur = pre

C15_Witness ==
  /\ op = "read_unchecked"
  /\ check_state(Cur) = "Outdated"
  /\ ret = Some(Ok(1))

\* C16: an invalidation issued while an execution is in flight is not lost:
\* the marker stays set up to the completion, restart and fetch change nothing
\* meanwhile, the completion lands in Outdated, and read(false) returns nothing
\* until a later restart or fetch has taken effect and completed with Ok.
C16_InFlightInvalidationKept ==
  /\ (invalidation = "pending" =>
        /\ outdated_marker
        /\ (running = 0 => check_state(Cur) = "Outdated")
        /\ (op \in {"restart", "fetch"} /\ pre.running > 0 => Cur = pre))
  /\ (invalidation # "none" /\ op = "read" /\ arg = FALSE => ret = None)

C16_Witness ==
  /\ invalidation = "pending"
  /\ op = "complete"
  /\ pre.running = 1
  /\ HeldOk(Cur)
  /\ check_state(Cur) = "Outdated"

\* C17: a value returned by read(false) was produced by an execution the
\* engine started after the most recent set_outdated call.
C17_StrictReadNeverStale ==
  op \in {"read", "read_clone"} /\ arg = FALSE /\ ret # None => ~value_tainted

C17_Witness ==
  /\ op = "read" /\ arg = FALSE
  /\ refresh = "done"
  /\ ret = Some(2)

\* C18: while the marker is set, read returns nothing under both policies and
\* in every raw execution state.
C18_MarkerHidesEveryRead ==
  op \in {"read", "read_clone"} /\ outdated_marker => ret = None

C18_Witness ==
  /\ op = "read" /\ arg = TRUE
  /\ outdated_marker
  /\ Raw(Cur) = "Complete"
  /\ HeldOk(Cur)
  /\ ret = None

\* C19: if read(false) returns v then read(true) returns the same v, and v is
\* the Ok payload read_unchecked returns in that state.
C19_PermissiveExposesStrict ==
  op = "read" /\ arg = FALSE /\ ret # None =>
    /\ read(Cur, TRUE) = ret
    /\ read_unchecked(Cur) = Some(Ok(ret[2]))

C19_Witness ==
  /\ op = "read" /\ arg = FALSE
  /\ ret = Some(1)
  /\ read(Cur, TRUE) = Some(1)

\* C20: once a restart or fetch has taken effect in Outdated, the hook
\* eventually reaches Ready or Error with the marker clear, unless
\* set_outdated is called again, provided the engine completes its executions.
C20_RefreshMakesProgress ==
  (refresh = "started") ~>
    \/ refresh = "done" /\ check_state(Cur) \in {"Ready", "Error"} /\ ~outdated_marker
    \/ op = "set_outdated"

C20_Witness ==
  /\ refresh = "done"
  /\ op = "complete"
  /\ check_state(Cur) \in {"Ready", "Error"}
  /\ ~outdated_marker

====
